---- MODULE Spec2Model ----
(***************************************************************************)
(* NOVA price proxy (src/server.js): the POL rate cache, the USD -> wei     *)
(* conversion, the persisted price document and the admin-gated mutation   *)
(* endpoints, as a state machine.  One action per HTTP handler step: a     *)
(* handler that awaits the quote provider is split at the await into a     *)
(* start step and a resume step, everything between two awaits is one      *)
(* atomic step (single-threaded event loop).                               *)
(*                                                                         *)
(* JavaScript numbers are modelled as [t |-> "num", v |-> n] where n counts *)
(* 1/SubMicro millionths, so that Math.round(x * 1e6) really rounds; NaN    *)
(* and Infinity are separate tags.  BigInt results are computed by long    *)
(* division over decimal digits and kept as the decimal strings the code   *)
(* stores.                                                                 *)
(***************************************************************************)
EXTENDS Integers, Sequences, FiniteSets, TLC

(* ------------------------------ bounds --------------------------------- *)
\* resolution of the modelled numbers: SubMicro units per millionth
SubMicro == 4
\* number of HTTP requests the service accepts in one run
MaxRequests == 2
\* number of clock ticks in one run
MaxTicks == 2

(* ------------------------- program constants --------------------------- *)
POL_CACHE_DURATION == 30 * 60 * 1000
\* exponent of WEI = BigInt(10) ** BigInt(18)
WEI_DECIMALS == 18
\* the factor of Math.round(x * 1_000_000)
MICRO == 1000000
ADMIN_API_KEY == "your-secure-admin-key-change-this"

(* --------------------------- JS values --------------------------------- *)
Num(n) == [t |-> "num", v |-> n]
NaN == [t |-> "nan", v |-> 0]
Infinity == [t |-> "inf", v |-> 0]
Undefined == [t |-> "undef", v |-> 0]
\* a non-numeric JSON string such as "abc"
Text == [t |-> "str", v |-> 0]
\* JSON null (typeof 'object')
Null == [t |-> "null", v |-> 0]
\* a JSON array (typeof 'object', Array.isArray)
Arr == [t |-> "arr", v |-> 0]
Obj(m) == [t |-> "obj", v |-> 0, m |-> m]

\* n US dollars (or n tokens' price) as a JS number
Usd(n) == Num(n * MICRO * SubMicro)
\* n millionths as a JS number
Micro(n) == Num(n * SubMicro)

\* Number(x) for the JSON values a request body carries
ToNumber(x) ==
  CASE x.t = "num" -> x
    [] x.t = "null" -> [t |-> "num", v |-> 0]
    [] OTHER -> NaN

\* initial cachedPolPrice = 0.182
SEED_POL_PRICE == Micro(182000)
\* NOVA_PRICE = 0.00007
NOVA_PRICE == Micro(70)

(* --------------------------- calculateWei ------------------------------ *)
\* Math.round(x * 1_000_000) of a finite number: floor(x * 1e6 + 0.5)
MathRoundMicro(n) ==
  (n \div SubMicro) + (IF 2 * (n % SubMicro) >= SubMicro THEN 1 ELSE 0)

RECURSIVE DigitsOf(_)
DigitsOf(n) == IF n < 10 THEN <<n>> ELSE DigitsOf(n \div 10) \o <<n % 10>>

RECURSIVE LongDiv_dropsZeroDigits(_, _, _, _, _)
LongDiv_dropsZeroDigits(ds, i, rem, d, started) ==
  IF i > Len(ds) THEN (IF started THEN "" ELSE "0")
  ELSE LET cur == rem * 10 + ds[i]
           q == cur \div d
       IN IF q = 0
          THEN LongDiv_dropsZeroDigits(ds, i + 1, cur % d, d, started)
          ELSE ToString(q) \o LongDiv_dropsZeroDigits(ds, i + 1, cur % d, d, TRUE)

\* long division of the decimal digits ds by d > 0, quotient as a decimal
\* string without leading zeros (BigInt division and toString)
RECURSIVE LongDiv(_, _, _, _, _)
LongDiv(ds, i, rem, d, started) ==
  IF i > Len(ds) THEN (IF started THEN "" ELSE "0")
  ELSE LET cur == rem * 10 + ds[i]
           q == cur \div d
       IN IF q = 0 /\ ~started
          THEN LongDiv(ds, i + 1, cur % d, d, FALSE)
          ELSE ToString(q) \o LongDiv(ds, i + 1, cur % d, d, TRUE)

Abs(n) == IF n < 0 THEN -n ELSE n

\* what a throwing calculateWei yields in the model: BigInt(NaN),
\* BigInt(Infinity) and a BigInt division by zero all throw RangeError
RangeError == "RangeError"

BigDivString_weiOneDigitShort(usdBig, priceBig) ==
  LET mag == LongDiv(DigitsOf(Abs(usdBig)) \o [i \in 1..(WEI_DECIMALS - 1) |-> 0],
                     1, 0, Abs(priceBig), FALSE)
      neg == (usdBig < 0) # (priceBig < 0)
  IN IF neg /\ mag # "0" THEN "-" \o mag ELSE mag

\* (usdBig * WEI) / priceBig, truncated towards zero, as a string
BigDivString(usdBig, priceBig) ==
  LET mag == LongDiv(DigitsOf(Abs(usdBig)) \o [i \in 1..WEI_DECIMALS |-> 0],
                     1, 0, Abs(priceBig), FALSE)
      neg == (usdBig < 0) # (priceBig < 0)
  IN IF neg /\ mag # "0" THEN "-" \o mag ELSE mag

calculateWei_dividesPriceByAmount(usdAmount, tokenPrice) ==
  IF usdAmount.t # "num" \/ tokenPrice.t # "num" THEN RangeError
  ELSE LET usdBig == MathRoundMicro(usdAmount.v)
           priceBig == MathRoundMicro(tokenPrice.v)
       IN IF usdBig = 0 THEN RangeError
          ELSE BigDivString(priceBig, usdBig)

calculateWei(usdAmount, tokenPrice) ==
  IF usdAmount.t # "num" \/ tokenPrice.t # "num" THEN RangeError
  ELSE LET usdBig == MathRoundMicro(usdAmount.v)
           priceBig == MathRoundMicro(tokenPrice.v)
       IN IF priceBig = 0 THEN RangeError
          ELSE BigDivString(usdBig, priceBig)

(* ------------------------------ inputs --------------------------------- *)
\* x-admin-key header: absent (or empty), a wrong key, the configured key
Keys == {"", "wrong-key", ADMIN_API_KEY}

\* r.data?.data?.POL?.quote?.USD?.price of a provider reply: 0.2, a positive
\* price below half a millionth, 0, 1e999, a string
Payloads == {Micro(200000), Num(1), Num(0), Infinity, Text}
\* axios.get rejected (network error, non-2xx status)
Failed == [t |-> "fail", v |-> 0]
Outcomes == Payloads \cup {Failed}

\* the decimal keys "0" .. "n-1" of a tiered item, and the index of one
TierKeys(n) == {ToString(i) : i \in 0..(n - 1)}
TierIndex(k) == CHOOSE i \in 0..29 : ToString(i) = k

\* o[k] = v on an ordinary object creates the own property k, except for
\* k = "__proto__": that assignment goes to the prototype setter and creates
\* no own property.  AssignedKeys(keys): the own keys of a fresh {} after
\* o[k] = v for every k in keys.
ProtoKey == "__proto__"
AssignedKeys(keys) == keys \ {ProtoKey}

PassesBodies ==
  {[basic |-> Usd(50), premium |-> Usd(150), ultimate |-> Usd(300)],
   [basic |-> Usd(50), premium |-> Undefined, ultimate |-> Usd(300)],
   [basic |-> Usd(50), premium |-> Usd(150), ultimate |-> Text]}

CoresBodies ==
  {[boost |-> Obj([k \in TierKeys(2) |-> Usd(5 + 3 * TierIndex(k))]),
    nft |-> Usd(5), point |-> Usd(20)],
   [boost |-> Obj([k \in TierKeys(2) |-> Usd(5 + 3 * TierIndex(k))]),
    nft |-> Undefined, point |-> Usd(20)],
   [boost |-> Arr, nft |-> Usd(5), point |-> Usd(20)],
   [boost |-> Obj([k \in TierKeys(2) |-> IF k = "0" THEN Text ELSE Usd(8)]),
    nft |-> Usd(5), point |-> Usd(20)]}

\* fs.writeFileSync: completes; fails before touching the file (open fails);
\* fails after truncating it (the write fails part-way)
WriteOutcomes == {"ok", "denied", "partial"}

DEFAULT_BOOST_USD ==
  <<5, 8, 10, 12, 14, 16, 18, 21, 24, 27,
    30, 35, 40, 45, 50, 60, 65, 70, 75, 80,
    85, 90, 95, 100, 110, 120, 130, 140, 150, 200>>

DEFAULT_PRICES_USD ==
  [passes |-> [basic |-> Usd(8), premium |-> Usd(15), ultimate |-> Usd(22)],
   cores |-> [boost |-> Obj([k \in TierKeys(30) |->
                                Usd(DEFAULT_BOOST_USD[TierIndex(k) + 1])]),
              nft |-> Usd(5),
              point |-> Usd(20)]]

(* ------------------------ convertPricesUsdToWei ------------------------ *)
\* every amount and every rate calculateWei can be called with in this model
Amounts ==
  {NaN} \cup {Usd(n) : n \in {-1, 15, 20, 22, 300}}
        \cup {Usd(DEFAULT_BOOST_USD[i]) : i \in 1..30}
Rates == {SEED_POL_PRICE, NOVA_PRICE} \cup {p \in Payloads : p.t = "num"}

\* calculateWei is pure: its results over Amounts x Rates, computed once
WeiTable == [a \in Amounts, r \in Rates |-> calculateWei(a, r)]

WeiPair_polRateTwice(usd, polPrice) ==
  [polWei |-> WeiTable[ToNumber(usd), polPrice],
   novaWei |-> WeiTable[ToNumber(usd), polPrice]]
\* one leaf: { polWei: calculateWei(Number(usd), polPrice),
\*             novaWei: calculateWei(Number(usd), NOVA_PRICE) }
WeiPair(usd, polPrice) ==
  [polWei |-> WeiTable[ToNumber(usd), polPrice],
   novaWei |-> WeiTable[ToNumber(usd), NOVA_PRICE]]

convertPricesUsdToWei_tiersRenumbered(pricesUsd, polPrice) ==
  [category \in AssignedKeys(DOMAIN pricesUsd) |->
    [k \in AssignedKeys(DOMAIN pricesUsd[category]) |->
      LET v == pricesUsd[category][k]
      IN IF v.t = "obj"
         THEN [idx \in TierKeys(Cardinality(DOMAIN v.m)) |->
                 WeiPair(v.m[CHOOSE key \in DOMAIN v.m : TRUE], polPrice)]
         ELSE WeiPair(v, polPrice)]]

\* the value returned when no calculateWei call throws: out[category],
\* out[category][k] and out[category][k][idx] are set by assignment
convertPricesUsdToWei(pricesUsd, polPrice) ==
  [category \in AssignedKeys(DOMAIN pricesUsd) |->
    [k \in AssignedKeys(DOMAIN pricesUsd[category]) |->
      LET v == pricesUsd[category][k]
      IN IF v.t = "obj"
         THEN [idx \in AssignedKeys(DOMAIN v.m) |-> WeiPair(v.m[idx], polPrice)]
         ELSE WeiPair(v, polPrice)]]

PairThrows(usd, polPrice) ==
  LET w == WeiPair(usd, polPrice)
  IN w.polWei = RangeError \/ w.novaWei = RangeError

\* convertPricesUsdToWei throws as soon as one calculateWei call throws
ConvertThrows(pricesUsd, polPrice) ==
  \E category \in DOMAIN pricesUsd : \E k \in DOMAIN pricesUsd[category] :
    LET v == pricesUsd[category][k]
    IN IF v.t = "obj"
       THEN \E idx \in DOMAIN v.m : PairThrows(v.m[idx], polPrice)
       ELSE PairThrows(v, polPrice)

\* the value DEFAULT_PRICES is bound to when the module is loaded
StartupDefault == convertPricesUsdToWei(DEFAULT_PRICES_USD, SEED_POL_PRICE)

\* process start time, Date.now() at startup: later than POL_CACHE_DURATION
StartTime == POL_CACHE_DURATION
TickMs == POL_CACHE_DURATION \div 2
MaxTime == StartTime + MaxTicks * TickMs

(* ------------------------------- state --------------------------------- *)
VARIABLES
  CMC_API_KEY,        \* TRUE iff process.env.CMC_API_KEY is a non-empty string
  now,                \* Date.now()
  cachedPolPrice,     \* let cachedPolPrice
  lastPolFetchTime,   \* let lastPolFetchTime
  DEFAULT_PRICES,     \* the object the const DEFAULT_PRICES refers to
  file,               \* prices.json: [st |-> "absent" | "malformed" | "doc", doc]
  inflight,           \* handlers suspended at their await axios.get; silent:
                      \* the provider will never answer this call
  nreq,               \* requests received so far
  resp,               \* the last response sent
  io,                 \* what the last step did: provider called, file written
  committed,          \* per category, the sub-tree the last successful POST
                      \* stored in the file as it stands (NoData: none)
  weiCall,            \* the last two direct calls of calculateWei: arguments
                      \* and result of the last one, and of the one before
  convCall,           \* the last direct call of convertPricesUsdToWei
  tokenCall,          \* the last two calls of getToken
  earlyCall           \* the last two calls of the calculateWei of
                      \* src/unnamed/part_000

vars == <<CMC_API_KEY, now, cachedPolPrice, lastPolFetchTime, DEFAULT_PRICES,
          file, inflight, nreq, resp, io, committed, weiCall, convCall,
          tokenCall, earlyCall>>

NoData == [none |-> TRUE]
NoBody == [none |-> TRUE]
Idle ==
  [op |-> "none", now |-> 0, polPrice |-> Undefined, body |-> NoBody,
   silent |-> FALSE]

FileDoc(d) == [st |-> "doc", doc |-> d]
FileAbsent == [st |-> "absent", doc |-> NoData]
FileMalformed == [st |-> "malformed", doc |-> NoData]

BaseResp(op, status) ==
  [op |-> op, status |-> status, success |-> FALSE, error |-> "", warning |-> "",
   cached |-> "absent", price |-> Undefined, data |-> NoData, boostTiers |-> -1,
   polRate |-> Undefined, remaining |-> -1, timestamp |-> FALSE,
   required |-> <<>>]

NoIo == [called |-> FALSE, wrote |-> "no"]
Called == [called |-> TRUE, wrote |-> "no"]
Wrote(w) == [called |-> FALSE, wrote |-> w]

NoneCommitted == [passes |-> NoData, cores |-> NoData]

\* no call of calculateWei yet
NoCall == [usdAmount |-> Undefined, tokenPrice |-> Undefined, result |-> ""]
NoCalls == [last |-> NoCall, before |-> NoCall]
\* no call of convertPricesUsdToWei yet
NoConversion ==
  [called |-> FALSE, pricesUsd |-> NoData, polPrice |-> Undefined,
   threw |-> FALSE, out |-> NoData]

\* no call of getToken yet
NoToken == [chainId |-> 0, address |-> "", decimals |-> 0, symbol |-> "", name |-> ""]
NoTokenCall == [addr |-> "", rpc |-> FALSE, threw |-> FALSE, token |-> NoToken]
NoTokenCalls == [last |-> NoTokenCall, before |-> NoTokenCall]

(* --------------------------- the price store --------------------------- *)
\* initPricesFile: creates the file only when it does not exist
initPricesFile(f) == IF f.st = "absent" THEN FileDoc(StartupDefault) ELSE f

readPrices_ignoresFile == DEFAULT_PRICES
\* readPrices: the parsed file, or the DEFAULT_PRICES object itself when the
\* file is missing or JSON.parse throws
readPrices == IF file.st = "doc" THEN file.doc ELSE DEFAULT_PRICES

\* readPrices returned the DEFAULT_PRICES object, not a fresh parse
ReadIsDefaultObject == file.st # "doc"

\* savePrices(prices) under write outcome w: the file afterwards
savePrices(prices, w) ==
  CASE w = "ok" -> FileDoc(prices)
    [] w = "denied" -> file
    [] w = "partial" -> FileMalformed

\* fs.writeFileSync threw, so savePrices threw
WriteThrew_swallowed(w) == FALSE
WriteThrew(w) == w # "ok"

\* committed after a write of one category (or of the whole document: "all")
CommittedAfter(category, converted, w) ==
  CASE w = "denied" -> committed
    [] w = "partial" -> NoneCommitted
    [] w = "ok" /\ category = "all" -> NoneCommitted
    [] w = "ok" /\ category # "all" ->
         [(IF file.st = "doc" THEN committed ELSE NoneCommitted)
            EXCEPT ![category] = converted]

(* ----------------------------- admin gate ------------------------------ *)
authenticateAdminKey_anyKey(providedKey) == providedKey # ""
\* TRUE iff authenticateAdminKey calls next()
authenticateAdminKey(providedKey) ==
  ~(providedKey = "" \/ providedKey # ADMIN_API_KEY)

Unauthorized(op) ==
  [BaseResp(op, 401) EXCEPT !.error = "unauthorized", !.timestamp = TRUE]

(* ------------------------------ rate cache ----------------------------- *)
IsValidPrice_nonNegative(p) == p.t = "num" /\ p.v >= 0
\* typeof p === 'number' && isFinite(p) && p > 0
IsValidPrice(p) == p.t = "num" /\ p.v > 0

HasCredential_always == TRUE
\* if (CMC_API_KEY): a provider credential is configured
HasCredential == CMC_API_KEY

CacheFresh_inverted(t) == t - lastPolFetchTime > POL_CACHE_DURATION
\* now - lastPolFetchTime < POL_CACHE_DURATION
CacheFresh(t) == t - lastPolFetchTime < POL_CACHE_DURATION

RefreshedCache_storesAnyNumber(p, t) ==
  IF p.t = "num" THEN [price |-> p, time |-> t]
  ELSE [price |-> cachedPolPrice, time |-> lastPolFetchTime]

\* the cache after a provider reply carrying p, for the request started at t
RefreshedCache(p, t) ==
  IF IsValidPrice(p) THEN [price |-> p, time |-> t]
  ELSE [price |-> cachedPolPrice, time |-> lastPolFetchTime]

PolErrorResponse_status500 == [BaseResp("GetPol", 500) EXCEPT !.error = "provider"]
\* the catch branch of GET /api/prices/pol
PolErrorResponse ==
  [BaseResp("GetPol", 200) EXCEPT !.price = cachedPolPrice, !.error = "provider",
                                  !.timestamp = TRUE]

Init ==
  /\ CMC_API_KEY \in BOOLEAN
  /\ now = StartTime
  /\ cachedPolPrice = SEED_POL_PRICE
  /\ lastPolFetchTime = 0
  /\ DEFAULT_PRICES = StartupDefault
  /\ file \in {initPricesFile(f) : f \in {FileAbsent, FileMalformed, FileDoc(StartupDefault)}}
  /\ inflight = [i \in 1..MaxRequests |-> Idle]
  /\ nreq = 0
  /\ resp = BaseResp("none", 0)
  /\ io = NoIo
  /\ committed = NoneCommitted
  /\ weiCall = NoCalls
  /\ convCall = NoConversion
  /\ tokenCall = NoTokenCalls
  /\ earlyCall = NoCalls

Tick ==
  /\ now < MaxTime
  /\ now' = now + TickMs
  /\ io' = NoIo
  /\ UNCHANGED <<weiCall, convCall, tokenCall, earlyCall, CMC_API_KEY, cachedPolPrice, lastPolFetchTime, DEFAULT_PRICES,
                 file, inflight, nreq, resp, committed>>

\* prices.json is deleted from outside the process
FileRemoved ==
  /\ file.st # "absent"
  /\ file' = FileAbsent
  /\ io' = NoIo
  /\ committed' = NoneCommitted
  /\ UNCHANGED <<weiCall, convCall, tokenCall, earlyCall, CMC_API_KEY, now, cachedPolPrice, lastPolFetchTime, DEFAULT_PRICES,
                 inflight, nreq, resp>>

(* --------------------------- GET /api/prices/pol ----------------------- *)
GetPol ==
  /\ nreq < MaxRequests
  /\ nreq' = nreq + 1
  /\ IF CacheFresh(now)
     THEN /\ resp' = [BaseResp("GetPol", 200) EXCEPT !.price = cachedPolPrice,
                         !.cached = "true", !.timestamp = TRUE]
          /\ io' = NoIo
          /\ UNCHANGED inflight
     ELSE IF ~HasCredential
     THEN /\ resp' = [BaseResp("GetPol", 200) EXCEPT !.price = cachedPolPrice,
                         !.cached = "true", !.warning = "no_api_key"]
          /\ io' = NoIo
          /\ UNCHANGED inflight
     ELSE /\ inflight' = [inflight EXCEPT ![nreq + 1] =
                            [Idle EXCEPT !.op = "GetPol", !.now = now]]
          /\ io' = Called
          /\ UNCHANGED resp
  /\ UNCHANGED <<weiCall, convCall, tokenCall, earlyCall, CMC_API_KEY, now, cachedPolPrice, lastPolFetchTime, DEFAULT_PRICES,
                 file, committed>>

GetPolResume(id, outcome) ==
  /\ inflight[id].op = "GetPol"
  /\ ~inflight[id].silent
  /\ inflight' = [inflight EXCEPT ![id] = Idle]
  /\ io' = NoIo
  /\ IF outcome = Failed
     THEN /\ resp' = PolErrorResponse
          /\ UNCHANGED <<cachedPolPrice, lastPolFetchTime>>
     ELSE LET c == RefreshedCache(outcome, inflight[id].now)
          IN /\ cachedPolPrice' = c.price
             /\ lastPolFetchTime' = c.time
             /\ resp' = [BaseResp("GetPol", 200) EXCEPT !.price = c.price,
                            !.cached = "false", !.timestamp = TRUE]
  /\ UNCHANGED <<weiCall, convCall, tokenCall, earlyCall, CMC_API_KEY, now, DEFAULT_PRICES, file, nreq, committed>>

(* ------------------------------ price GETs ----------------------------- *)
\* the passes sub-tree reduced to { novaWei } per item
NovaOnly(passes) == [k \in DOMAIN passes |-> [novaWei |-> passes[k].novaWei]]

\* what each GET sends for the document prices
ReadResponse(op, prices) ==
  CASE op = "GetAll" -> [BaseResp(op, 200) EXCEPT !.data = prices]
    [] op = "GetPasses" -> [BaseResp(op, 200) EXCEPT !.data = prices.passes]
    [] op = "GetNovaOnly" -> [BaseResp(op, 200) EXCEPT !.data = NovaOnly(prices.passes)]
    [] op = "GetCores" -> [BaseResp(op, 200) EXCEPT !.data = prices.cores]

\* GET /api/prices/all, /passes, /passes/nova-only, /cores
GetPrices(op) ==
  /\ nreq < MaxRequests
  /\ nreq' = nreq + 1
  /\ resp' = ReadResponse(op, readPrices)
  /\ io' = NoIo
  /\ UNCHANGED <<weiCall, convCall, tokenCall, earlyCall, CMC_API_KEY, now, cachedPolPrice, lastPolFetchTime, DEFAULT_PRICES,
                 file, inflight, committed>>

\* Math.max(0, Math.round((POL_CACHE_DURATION - (Date.now() - lastPolFetchTime)) / 60000))
RemainingMinutes ==
  LET ms == POL_CACHE_DURATION - (now - lastPolFetchTime)
      m == (ms \div 60000) + (IF 2 * (ms % 60000) >= 60000 THEN 1 ELSE 0)
  IN IF m < 0 THEN 0 ELSE m

Health ==
  /\ nreq < MaxRequests
  /\ nreq' = nreq + 1
  /\ resp' = [BaseResp("Health", 200) EXCEPT !.price = cachedPolPrice,
                 !.polRate = NOVA_PRICE, !.remaining = RemainingMinutes,
                 !.timestamp = TRUE]
  /\ io' = NoIo
  /\ UNCHANGED <<weiCall, convCall, tokenCall, earlyCall, CMC_API_KEY, now, cachedPolPrice, lastPolFetchTime, DEFAULT_PRICES,
                 file, inflight, committed>>

(* --------------------------- mutation handlers ------------------------- *)
\* the rate a POST converts with: the provider's price when the call
\* succeeded with a valid price, else the cachedPolPrice read before the call
PostRate_acceptsZero(captured, outcome) ==
  IF outcome # Failed /\ outcome.t = "num" /\ outcome.v >= 0 THEN outcome
  ELSE captured

PostRate(captured, outcome) ==
  IF outcome # Failed /\ IsValidPrice(outcome) THEN outcome ELSE captured

WithCategory_fromDefault(prices, category, converted) ==
  [DEFAULT_PRICES EXCEPT ![category] = converted]
\* prices.passes = converted / prices.cores = converted
WithCategory(prices, category, converted) == [prices EXCEPT ![category] = converted]

ServerError(op, message) == [BaseResp(op, 500) EXCEPT !.error = message]

PassesUsd(body) ==
  [basic |-> ToNumber(body.basic), premium |-> ToNumber(body.premium),
   ultimate |-> ToNumber(body.ultimate)]

CoresUsd(body) ==
  [boost |-> Obj([k \in AssignedKeys(DOMAIN body.boost.m) |->
                    ToNumber(body.boost.m[k])]),
   nft |-> ToNumber(body.nft), point |-> ToNumber(body.point)]

BodyUsd(op, body) == IF op = "PostPasses" THEN PassesUsd(body) ELSE CoresUsd(body)

CategoryOf(op) == IF op = "PostPasses" THEN "passes" ELSE "cores"

\* res.json({ success: true, prices: prices.<category>, ... })
PostOk(op, prices, body, polPrice) ==
  IF op = "PostPasses"
  THEN [BaseResp(op, 200) EXCEPT !.success = TRUE, !.data = prices.passes,
                                 !.timestamp = TRUE]
  ELSE [BaseResp(op, 200) EXCEPT !.success = TRUE, !.data = prices.cores,
           !.boostTiers = Cardinality(DOMAIN CoresUsd(body).boost.m), !.polRate = polPrice,
           !.timestamp = TRUE]

\* convert, readPrices, replace the category, savePrices, answer: the part of
\* both POST handlers after the provider call.
Persist(op, body, polPrice) ==
  LET category == CategoryOf(op)
      usdTree == [c \in {category} |-> BodyUsd(op, body)]
  IN IF ConvertThrows(usdTree, polPrice)
     THEN /\ resp' = ServerError(op, RangeError)
          /\ io' = NoIo
          /\ UNCHANGED <<file, DEFAULT_PRICES, committed>>
     ELSE LET converted == convertPricesUsdToWei(usdTree, polPrice)[category]
              prices == WithCategory(readPrices, category, converted)
          IN /\ DEFAULT_PRICES' = IF ReadIsDefaultObject THEN prices ELSE DEFAULT_PRICES
             /\ \E w \in WriteOutcomes :
                  /\ file' = savePrices(prices, w)
                  /\ resp' = IF WriteThrew(w) THEN ServerError(op, "EIO")
                             ELSE PostOk(op, prices, body, polPrice)
                  /\ io' = Wrote(w)
                  /\ committed' = CommittedAfter(category, converted, w)

\* required: [...] of the missing_fields response
RequiredFields(op) ==
  IF op = "PostPasses" THEN <<"basic", "premium", "ultimate">>
  ELSE <<"boost(object)", "nft", "point">>

PassesMissing_onlyBasic(body) == body.basic.t = "undef"
\* basic === undefined || premium === undefined || ultimate === undefined
PassesMissing(body) ==
  body.basic.t = "undef" \/ body.premium.t = "undef" \/ body.ultimate.t = "undef"

CoresMissing(body) ==
  body.boost.t = "undef" \/ body.nft.t = "undef" \/ body.point.t = "undef"

\* typeof boost !== 'object' || boost === null || Array.isArray(boost)
BoostNotObject(body) == body.boost.t # "obj"

\* the error of the 400 response, "" when the body passes the checks
BadRequest(op, body) ==
  CASE op = "PostPasses" /\ PassesMissing(body) -> "missing_fields"
    [] op = "PostCores" /\ CoresMissing(body) -> "missing_fields"
    [] op = "PostCores" /\ BoostNotObject(body) -> "boost_must_be_object"
    [] OTHER -> ""

\* POST /api/prices/passes and POST /api/prices/cores up to the provider call
\* (or to the end, when no provider credential is configured)
PostStart(op, key, body) ==
  /\ nreq < MaxRequests
  /\ nreq' = nreq + 1
  /\ IF ~authenticateAdminKey(key)
     THEN /\ resp' = Unauthorized(op)
          /\ io' = NoIo
          /\ UNCHANGED <<inflight, file, DEFAULT_PRICES, committed>>
     ELSE IF BadRequest(op, body) # ""
     THEN /\ resp' = [BaseResp(op, 400) EXCEPT
                         !.error = BadRequest(op, body),
                         !.required = IF BadRequest(op, body) = "missing_fields"
                                      THEN RequiredFields(op) ELSE <<>>]
          /\ io' = NoIo
          /\ UNCHANGED <<inflight, file, DEFAULT_PRICES, committed>>
     ELSE IF HasCredential
     THEN /\ inflight' = [inflight EXCEPT ![nreq + 1] =
               [Idle EXCEPT !.op = op, !.polPrice = cachedPolPrice, !.body = body]]
          /\ io' = Called
          /\ UNCHANGED <<resp, file, DEFAULT_PRICES, committed>>
     ELSE /\ Persist(op, body, cachedPolPrice)
          /\ UNCHANGED inflight
  /\ UNCHANGED <<weiCall, convCall, tokenCall, earlyCall, CMC_API_KEY, now, cachedPolPrice, lastPolFetchTime>>

PostPasses(key, body) == PostStart("PostPasses", key, body)

PostCores(key, body) == PostStart("PostCores", key, body)

PostResume_refreshesCache(op, id, outcome) ==
  /\ inflight[id].op = op
  /\ ~inflight[id].silent
  /\ inflight' = [inflight EXCEPT ![id] = Idle]
  /\ Persist(op, inflight[id].body, PostRate(inflight[id].polPrice, outcome))
  /\ cachedPolPrice' = PostRate(inflight[id].polPrice, outcome)
  /\ UNCHANGED <<weiCall, convCall, tokenCall, earlyCall, CMC_API_KEY, now, lastPolFetchTime, nreq>>

\* the rest of a POST handler once the provider call has settled
PostResume(op, id, outcome) ==
  /\ inflight[id].op = op
  /\ ~inflight[id].silent
  /\ inflight' = [inflight EXCEPT ![id] = Idle]
  /\ Persist(op, inflight[id].body, PostRate(inflight[id].polPrice, outcome))
  /\ UNCHANGED <<weiCall, convCall, tokenCall, earlyCall, CMC_API_KEY, now, cachedPolPrice, lastPolFetchTime, nreq>>

PostPassesResume(id, outcome) == PostResume("PostPasses", id, outcome)

PostCoresResume(id, outcome) == PostResume("PostCores", id, outcome)

\* POST /api/prices/reset
PostReset(key) ==
  /\ nreq < MaxRequests
  /\ nreq' = nreq + 1
  /\ IF ~authenticateAdminKey(key)
     THEN /\ resp' = Unauthorized("PostReset")
          /\ io' = NoIo
          /\ UNCHANGED <<file, committed>>
     ELSE \E w \in WriteOutcomes :
          /\ file' = savePrices(DEFAULT_PRICES, w)
          /\ resp' = IF WriteThrew(w)
                     THEN ServerError("PostReset", "EIO")
                     ELSE [BaseResp("PostReset", 200) EXCEPT !.success = TRUE,
                              !.data = DEFAULT_PRICES, !.timestamp = TRUE]
          /\ io' = Wrote(w)
          /\ committed' = CommittedAfter("all", NoData, w)
  /\ UNCHANGED <<weiCall, convCall, tokenCall, earlyCall, CMC_API_KEY, now, cachedPolPrice, lastPolFetchTime, DEFAULT_PRICES,
                 inflight>>

Next ==
  \/ Tick
  \/ FileRemoved
  \/ GetPol
  \/ \E id \in 1..MaxRequests, outcome \in Outcomes : GetPolResume(id, outcome)
  \/ \E op \in {"GetAll", "GetPasses", "GetNovaOnly", "GetCores"} : GetPrices(op)
  \/ Health
  \/ \E key \in Keys, body \in PassesBodies : PostPasses(key, body)
  \/ \E key \in Keys, body \in CoresBodies : PostCores(key, body)
  \/ \E id \in 1..MaxRequests, outcome \in Outcomes : PostPassesResume(id, outcome)
  \/ \E id \in 1..MaxRequests, outcome \in Outcomes : PostCoresResume(id, outcome)
  \/ \E key \in Keys : PostReset(key)

Spec == Init /\ [][Next]_vars

(* -------- authorized mutations only, with a wider range of bodies ------ *)
\* also a negative amount, each field missing in turn, and no body at all
\* (req.body || {})
MorePassesBodies ==
  PassesBodies \cup
    {[basic |-> Usd(-1), premium |-> Usd(15), ultimate |-> Usd(300)],
     [basic |-> Undefined, premium |-> Usd(15), ultimate |-> Usd(300)],
     [basic |-> Usd(50), premium |-> Usd(15), ultimate |-> Undefined],
     [basic |-> Undefined, premium |-> Undefined, ultimate |-> Undefined]}
\* also no tiers at all, a tier with a negative amount, each field missing in
\* turn, no body at all, and a boost that is null or a string
MoreCoresBodies ==
  CoresBodies \cup
    {[boost |-> Obj([k \in {} |-> Usd(5)]), nft |-> Usd(5), point |-> Usd(20)],
     [boost |-> Obj([k \in TierKeys(2) |-> IF k = "1" THEN Usd(-1) ELSE Usd(5)]),
      nft |-> Usd(5), point |-> Usd(20)],
     [boost |-> Undefined, nft |-> Usd(5), point |-> Usd(20)],
     [boost |-> Obj([k \in TierKeys(2) |-> Usd(5)]), nft |-> Usd(5),
      point |-> Undefined],
     [boost |-> Arr, nft |-> Undefined, point |-> Usd(20)],
     [boost |-> Undefined, nft |-> Undefined, point |-> Undefined],
     [boost |-> Null, nft |-> Usd(5), point |-> Usd(20)],
     [boost |-> Text, nft |-> Usd(5), point |-> Usd(20)]}

NextPosts ==
  \/ \E body \in MorePassesBodies : PostPasses(ADMIN_API_KEY, body)
  \/ \E body \in MoreCoresBodies : PostCores(ADMIN_API_KEY, body)
  \/ \E id \in 1..MaxRequests, outcome \in Outcomes : PostPassesResume(id, outcome)
  \/ \E id \in 1..MaxRequests, outcome \in Outcomes : PostCoresResume(id, outcome)
  \/ PostReset(ADMIN_API_KEY)

SpecPosts == Init /\ [][NextPosts]_vars

(* ------------- a provider that may never answer, and fairness ---------- *)
\* the provider accepted the request of the suspended handler id and will
\* never send a reply: axios.get is called without a timeout option, so its
\* promise never settles
ProviderSilent(id) ==
  /\ inflight[id].op # "none"
  /\ ~inflight[id].silent
  /\ inflight' = [inflight EXCEPT ![id].silent = TRUE]
  /\ io' = NoIo
  /\ UNCHANGED <<weiCall, convCall, tokenCall, earlyCall, CMC_API_KEY, now, cachedPolPrice, lastPolFetchTime,
                 DEFAULT_PRICES, file, nreq, resp, committed>>

\* the continuation of handler id after its await
Resumes(id) ==
  \E outcome \in Outcomes :
    \/ GetPolResume(id, outcome)
    \/ PostPassesResume(id, outcome)
    \/ PostCoresResume(id, outcome)

NextLive ==
  \/ Next
  \/ \E id \in 1..MaxRequests : ProviderSilent(id)

\* the event loop runs the continuation of every call that settles
SpecLive ==
  /\ Init
  /\ [][NextLive]_vars
  /\ \A id \in 1..MaxRequests : WF_vars(Resumes(id))

(* ---------------- calculateWei called on its own ----------------------- *)
\* amounts: 0, half a millionth, a millionth, 1.5, 8, 300, -1, NaN
CallAmounts ==
  {Num(0), Num((SubMicro + 1) \div 2), Micro(1), Micro(1500000), Usd(8),
   Usd(300), Usd(-1), NaN}
\* rates: 0, less than half a millionth, 0.000003, 0.00007, 0.182, 1, -0.2,
\* Infinity
CallRates ==
  {Num(0), Num(1), Micro(3), NOVA_PRICE, SEED_POL_PRICE, Usd(1),
   Micro(-200000), Infinity}

CallTable == [a \in CallAmounts, r \in CallRates |-> calculateWei(a, r)]

\* the service at rest, before any call
InitWei ==
  /\ Init
  /\ ~CMC_API_KEY
  /\ file = FileDoc(StartupDefault)

\* calculateWei(usdAmount, tokenPrice) is called and returns or throws
CallCalculateWei(usdAmount, tokenPrice) ==
  /\ weiCall' = [last |-> [usdAmount |-> usdAmount, tokenPrice |-> tokenPrice,
                           result |-> CallTable[usdAmount, tokenPrice]],
                 before |-> weiCall.last]
  /\ UNCHANGED <<CMC_API_KEY, now, cachedPolPrice, lastPolFetchTime,
                 DEFAULT_PRICES, file, inflight, nreq, resp, io, committed,
                 convCall, tokenCall, earlyCall>>

NextWei == \E a \in CallAmounts, r \in CallRates : CallCalculateWei(a, r)

SpecWei == InitWei /\ [][NextWei]_vars

(* ------------- convertPricesUsdToWei called on its own ----------------- *)
\* a cores category whose boost item has the tier keys keys
CoresWithTiers(keys) ==
  [boost |-> Obj([k \in keys |-> Usd(5)]), nft |-> Usd(5), point |-> Usd(20)]

ConvTierKeySets == SUBSET {"0", "1", "29", ProtoKey}

\* DEFAULT_PRICES_USD; { cores } and { passes, cores } with each tier key
\* set; a passes category with an item named __proto__
ConvTrees ==
  {DEFAULT_PRICES_USD}
    \cup {[c \in {"cores"} |-> CoresWithTiers(keys)] : keys \in ConvTierKeySets}
    \cup {[passes |-> DEFAULT_PRICES_USD.passes, cores |-> CoresWithTiers(keys)] :
            keys \in ConvTierKeySets}
    \cup {[c \in {"passes"} |-> [k \in {"basic", ProtoKey} |-> Usd(15)]]}

\* convertPricesUsdToWei(pricesUsd, polPrice) is called and returns or throws
CallConvert(pricesUsd, polPrice) ==
  /\ convCall' =
       IF ConvertThrows(pricesUsd, polPrice)
       THEN [called |-> TRUE, pricesUsd |-> pricesUsd, polPrice |-> polPrice,
             threw |-> TRUE, out |-> NoData]
       ELSE [called |-> TRUE, pricesUsd |-> pricesUsd, polPrice |-> polPrice,
             threw |-> FALSE, out |-> convertPricesUsdToWei(pricesUsd, polPrice)]
  /\ UNCHANGED <<CMC_API_KEY, now, cachedPolPrice, lastPolFetchTime,
                 DEFAULT_PRICES, file, inflight, nreq, resp, io, committed,
                 weiCall, tokenCall, earlyCall>>

NextConv == \E pricesUsd \in ConvTrees, polPrice \in Rates : CallConvert(pricesUsd, polPrice)

SpecConv == InitWei /\ [][NextConv]_vars

(* ------- the calculateWei of src/unnamed/part_000 called on its own ---- *)
\* Math.floor(x * 1000000) of a finite number
MathFloorMicro(n) == n \div SubMicro

\* (usdBig * WEI_PER_TOKEN * BigInt(1000000)) / priceBig, truncated towards
\* zero, as a string
BigDivStringTimesMicro(usdBig, priceBig) ==
  LET mag == LongDiv(DigitsOf(Abs(usdBig)) \o [i \in 1..(WEI_DECIMALS + 6) |-> 0],
                     1, 0, Abs(priceBig), FALSE)
      neg == (usdBig < 0) # (priceBig < 0)
  IN IF neg /\ mag # "0" THEN "-" \o mag ELSE mag

\* calculateWei(usdAmount, tokenPrice) of src/unnamed/part_000
calculateWei_part_000(usdAmount, tokenPrice) ==
  IF usdAmount.t # "num" \/ tokenPrice.t # "num" THEN RangeError
  ELSE LET usdBig == MathFloorMicro(usdAmount.v)
           priceBig == MathFloorMicro(tokenPrice.v)
       IN IF priceBig = 0 THEN RangeError
          ELSE BigDivStringTimesMicro(usdBig, priceBig)

EarlyTable == [a \in CallAmounts, r \in CallRates |-> calculateWei_part_000(a, r)]

CallEarlyCalculateWei(usdAmount, tokenPrice) ==
  /\ earlyCall' = [last |-> [usdAmount |-> usdAmount, tokenPrice |-> tokenPrice,
                             result |-> EarlyTable[usdAmount, tokenPrice]],
                   before |-> earlyCall.last]
  /\ UNCHANGED <<CMC_API_KEY, now, cachedPolPrice, lastPolFetchTime,
                 DEFAULT_PRICES, file, inflight, nreq, resp, io, committed,
                 weiCall, convCall, tokenCall>>

NextEarly == \E a \in CallAmounts, r \in CallRates : CallEarlyCalculateWei(a, r)

SpecEarly == InitWei /\ [][NextEarly]_vars

(* ---------------------- getToken called on its own --------------------- *)
\* the table of predefined tokens, with its keys as they are written
KNOWN_TOKENS ==
  [a \in {"0x0000000000000000000000000000000000001010",
          "0xc2132D05D31c914a87C6611C10748AEb04B58e8F",
          "0x7ceB23fD6bC0adD59E62ac25578270cFf1b9f619",
          "0x6bB838eb66BD035149019083fc6Cc84Ea327Eb99"} |->
    CASE a = "0x0000000000000000000000000000000000001010" ->
           [symbol |-> "POL", decimals |-> 18, name |-> "Polygon"]
      [] a = "0xc2132D05D31c914a87C6611C10748AEb04B58e8F" ->
           [symbol |-> "USDT", decimals |-> 6, name |-> "Tether USD"]
      [] a = "0x7ceB23fD6bC0adD59E62ac25578270cFf1b9f619" ->
           [symbol |-> "WETH", decimals |-> 18, name |-> "Wrapped Ether"]
      [] a = "0x6bB838eb66BD035149019083fc6Cc84Ea327Eb99" ->
           [symbol |-> "NOVA", decimals |-> 18, name |-> "NOVA Token"]]

\* String.prototype.toLowerCase on one character of an address (hex digits,
\* x and X)
LowerChar(c) ==
  CASE c = "A" -> "a" [] c = "B" -> "b" [] c = "C" -> "c" [] c = "D" -> "d"
    [] c = "E" -> "e" [] c = "F" -> "f" [] c = "X" -> "x" [] OTHER -> c

RECURSIVE toLowerCase(_)
toLowerCase(s) ==
  IF Len(s) = 0 THEN ""
  ELSE LowerChar(SubSeq(s, 1, 1)) \o toLowerCase(SubSeq(s, 2, Len(s)))

\* c.decimals() over RPC: the contract answers 18 or 6, or the call fails
RpcOutcomes ==
  {[ok |-> TRUE, decimals |-> 18], [ok |-> TRUE, decimals |-> 6],
   [ok |-> FALSE, decimals |-> 0]}

\* new Token(137, address, decimals, symbol, name)
Token(chainId, address, decimals, symbol, name) ==
  [chainId |-> chainId, address |-> address, decimals |-> decimals,
   symbol |-> symbol, name |-> name]

\* KNOWN_TOKENS[a] is truthy: a is one of the keys, character for character
IsKnownKey(a) == a \in DOMAIN KNOWN_TOKENS

\* getToken(addr), with rpc the outcome of the decimals() call should it be
\* made
getToken(addr, rpc) ==
  LET a == toLowerCase(addr)
  IN IF IsKnownKey(a)
     THEN [addr |-> addr, rpc |-> FALSE, threw |-> FALSE,
           token |-> Token(137, a, KNOWN_TOKENS[a].decimals,
                           KNOWN_TOKENS[a].symbol, KNOWN_TOKENS[a].name)]
     ELSE IF rpc.ok
     THEN [addr |-> addr, rpc |-> TRUE, threw |-> FALSE,
           token |-> Token(137, a, rpc.decimals,
                           "TOKEN_" \o SubSeq(a, 3, 8), "Token")]
     ELSE [addr |-> addr, rpc |-> TRUE, threw |-> TRUE, token |-> NoToken]

\* the four listed addresses as written, in lower case, USDT in upper case,
\* and USDC, which is not listed
TokenAddresses ==
  DOMAIN KNOWN_TOKENS
    \cup {toLowerCase(k) : k \in DOMAIN KNOWN_TOKENS}
    \cup {"0XC2132D05D31C914A87C6611C10748AEB04B58E8F",
          "0x2791Bca1f2de4661ED88A30C99A7a9449Aa84174"}

CallGetToken(addr, rpc) ==
  /\ tokenCall' = [last |-> getToken(addr, rpc), before |-> tokenCall.last]
  /\ UNCHANGED <<CMC_API_KEY, now, cachedPolPrice, lastPolFetchTime,
                 DEFAULT_PRICES, file, inflight, nreq, resp, io, committed,
                 weiCall, convCall, earlyCall>>

NextToken == \E addr \in TokenAddresses, rpc \in RpcOutcomes : CallGetToken(addr, rpc)

SpecToken == InitWei /\ [][NextToken]_vars

(* ======================= properties of the service ===================== *)
Ids == 1..MaxRequests
UnauthorizedKeys == Keys \ {ADMIN_API_KEY}

\* a step of POST /api/prices/passes, /cores: first part or resumption
PassesStep ==
  \/ \E key \in Keys, body \in PassesBodies : PostPasses(key, body)
  \/ \E id \in Ids, outcome \in Outcomes : PostPassesResume(id, outcome)
CoresStep ==
  \/ \E key \in Keys, body \in CoresBodies : PostCores(key, body)
  \/ \E id \in Ids, outcome \in Outcomes : PostCoresResume(id, outcome)

\* the step sent a response (it did not suspend) and that response has
\* success: true
AnsweredSuccess == ~io'.called /\ resp'.success

\* C1: a POST to /api/prices/passes, /cores or /reset whose x-admin-key is
\* missing or differs from the admin secret is answered 401 unauthorized,
\* leaves the persisted document and the rate cache as they were, and makes
\* no provider call and no file write.
C1_UnauthorizedChangesNothing ==
  [][\A key \in UnauthorizedKeys :
       (\/ \E body \in PassesBodies : PostPasses(key, body)
        \/ \E body \in CoresBodies : PostCores(key, body)
        \/ PostReset(key))
       => /\ resp'.status = 401 /\ resp'.error = "unauthorized"
          /\ file' = file /\ DEFAULT_PRICES' = DEFAULT_PRICES
          /\ cachedPolPrice' = cachedPolPrice
          /\ lastPolFetchTime' = lastPolFetchTime
          /\ inflight' = inflight /\ ~io'.called /\ io'.wrote = "no"]_vars

\* an unauthorized POST was rejected while the file held a stored update
C1_Witness ==
  /\ resp.status = 401 /\ resp.op \in {"PostPasses", "PostCores", "PostReset"}
  /\ committed.passes # NoData /\ file.st = "doc"

\* C2: once a refresh has stored a valid rate with fetch time t, a GET
\* /api/prices/pol starting at a time now with now - t < 30 minutes calls the
\* provider zero times and answers the cached rate with cached: true.
C2_FreshCacheIsServedWithoutCall ==
  [][(/\ lastPolFetchTime # 0
      /\ now - lastPolFetchTime < POL_CACHE_DURATION
      /\ GetPol)
     => /\ inflight' = inflight /\ ~io'.called
        /\ resp'.op = "GetPol" /\ resp'.status = 200
        /\ resp'.cached = "true" /\ resp'.price = cachedPolPrice
        /\ cachedPolPrice' = cachedPolPrice]_vars

\* a cache hit some time after the refresh that filled the cache
C2_Witness ==
  /\ resp.op = "GetPol" /\ resp.cached = "true" /\ resp.warning = ""
  /\ lastPolFetchTime # 0 /\ now > lastPolFetchTime
  /\ resp.price = cachedPolPrice /\ cachedPolPrice # SEED_POL_PRICE

\* C3: when the provider call of GET /api/prices/pol fails, the request is
\* still answered (status 200) with the cached rate, and neither step of the
\* request changes the cached rate or its fetch time.
C3_FailedFetchKeepsCache ==
  [][/\ GetPol => /\ cachedPolPrice' = cachedPolPrice
                  /\ lastPolFetchTime' = lastPolFetchTime
     /\ \A id \in Ids :
          GetPolResume(id, Failed)
          => /\ resp'.op = "GetPol" /\ resp'.status = 200
             /\ resp'.price = cachedPolPrice
             /\ cachedPolPrice' = cachedPolPrice
             /\ lastPolFetchTime' = lastPolFetchTime]_vars

\* a failed fetch answered with a rate that an earlier refresh had stored
C3_Witness ==
  /\ resp.op = "GetPol" /\ resp.error = "provider" /\ resp.status = 200
  /\ lastPolFetchTime # 0 /\ resp.price = cachedPolPrice
  /\ cachedPolPrice # SEED_POL_PRICE

\* C4: a provider reply to GET /api/prices/pol replaces the cached rate and
\* the fetch time together (by the returned price and the request's start
\* time) when the price is a finite number > 0, and leaves both unchanged for
\* every other payload.
C4_RefreshOnlyOnValidPrice ==
  [][\A id \in Ids, p \in Payloads :
       GetPolResume(id, p)
       => IF p.t = "num" /\ p.v > 0
          THEN /\ cachedPolPrice' = p
               /\ lastPolFetchTime' = inflight[id].now
               /\ resp'.price = p
          ELSE /\ cachedPolPrice' = cachedPolPrice
               /\ lastPolFetchTime' = lastPolFetchTime]_vars

\* a refresh has stored the provider's price and the request's start time
C4_Witness ==
  /\ resp.op = "GetPol" /\ resp.cached = "false"
  /\ cachedPolPrice = Micro(200000) /\ resp.price = cachedPolPrice
  /\ lastPolFetchTime >= StartTime

\* C5: a successful POST /api/prices/passes stores its converted passes and
\* leaves the cores sub-tree of the document as readPrices gave it; a
\* successful POST /api/prices/cores likewise leaves the passes sub-tree.
C5_OtherCategoryUntouched ==
  [][/\ (AnsweredSuccess /\ PassesStep)
        => /\ file'.st = "doc"
           /\ file'.doc.passes = resp'.data
           /\ file'.doc.cores = readPrices.cores
     /\ (AnsweredSuccess /\ CoresStep)
        => /\ file'.st = "doc"
           /\ file'.doc.cores = resp'.data
           /\ file'.doc.passes = readPrices.passes]_vars

\* a POST of passes succeeded on a file whose cores an earlier POST had set
C5_Witness ==
  /\ resp.op = "PostPasses" /\ resp.success /\ io.wrote = "ok"
  /\ committed.cores # NoData
  /\ file.st = "doc" /\ file.doc.cores = committed.cores
  /\ file.doc.cores # StartupDefault.cores

\* C6: no stored update is lost to a stale copy: whatever the interleaving of
\* the POST handlers, the file holds for each category the sub-tree of the
\* last successful POST of that category (until a reset, a failed write or
\* the loss of the file).
C6_NoLostUpdate ==
  \A category \in {"passes", "cores"} :
    committed[category] # NoData
    => file.st = "doc" /\ file.doc[category] = committed[category]

\* request 1, a POST of passes, is still suspended at its provider call while
\* the later POST of cores has already stored its sub-tree
C6_Witness ==
  /\ inflight[1].op = "PostPasses"
  /\ committed.cores # NoData /\ committed.passes = NoData
  /\ resp.op = "PostCores" /\ resp.success

\* C7: a successful POST /api/prices/reset leaves the file equal to the
\* default document computed at startup and returns that document.
C7_ResetRestoresStartupDefault ==
  (resp.op = "PostReset" /\ resp.success /\ io.wrote = "ok")
  => file = FileDoc(StartupDefault) /\ resp.data = StartupDefault

\* the passes sub-tree for a request body and a rate: calculateWei (as
\* tabulated in WeiTable) of each amount at that rate and at NOVA_PRICE
ExpectedPasses(body, rate) ==
  [k \in {"basic", "premium", "ultimate"} |->
    [polWei |-> WeiTable[ToNumber(body[k]), rate],
     novaWei |-> WeiTable[ToNumber(body[k]), NOVA_PRICE]]]

\* C8: a successful POST /api/prices/passes returns P with, per item x,
\* polWei = calculateWei(x, rate used) and novaWei = calculateWei(x, 0.00007),
\* and a GET /api/prices/passes returns exactly P as long as no reset, failed
\* write, loss of the file or later POST of passes came in between.
C8_PassesRoundTrip ==
  [][/\ \A key \in Keys, body \in PassesBodies :
          (AnsweredSuccess /\ PostPasses(key, body))
          => /\ resp'.data = ExpectedPasses(body, cachedPolPrice)
             /\ committed'.passes = resp'.data
     /\ \A id \in Ids, outcome \in Outcomes :
          (inflight[id] # Idle /\ inflight'[id] = Idle /\ AnsweredSuccess
             /\ PostPassesResume(id, outcome))
          => /\ resp'.data = ExpectedPasses(inflight[id].body,
                                PostRate(inflight[id].polPrice, outcome))
             /\ committed'.passes = resp'.data
     /\ (committed.passes # NoData /\ GetPrices("GetPasses"))
        => resp'.data = committed.passes]_vars

\* a GET of passes returned what the POST before it had returned
C8_Witness ==
  /\ resp.op = "GetPasses" /\ resp.status = 200
  /\ committed.passes # NoData /\ resp.data = committed.passes

\* C9: with the file absent or unparseable, every GET price endpoint answers
\* from the default document computed at startup and leaves the file alone.
C9_ReadFallsBackToStartupDefault ==
  [][\A op \in {"GetAll", "GetPasses", "GetNovaOnly", "GetCores"} :
       (GetPrices(op) /\ file.st # "doc")
       => resp' = ReadResponse(op, StartupDefault) /\ file' = file]_vars

\* C10: a mutation whose file write fails is answered with a 5xx status and
\* without success: true.
C10_FailedWriteIsNotSuccess ==
  io.wrote \in {"denied", "partial"}
  => /\ resp.op \in {"PostPasses", "PostCores", "PostReset"}
     /\ resp.status >= 500 /\ ~resp.success

\* a write failed part-way and the request was answered 500
C10_Witness ==
  /\ io.wrote = "partial" /\ resp.status = 500 /\ file.st = "malformed"
  /\ resp.op = "PostCores"

\* C11: a write that is attempted leaves in the file either the complete
\* previous content or the complete new document, never a partial one.
C11_WriteIsAllOrNothing ==
  [][io'.wrote # "no" => (file' = file \/ file'.st = "doc")]_vars

\* a step of any of the three mutation handlers
MutationStep ==
  PassesStep \/ CoresStep \/ \E key \in Keys : PostReset(key)

\* C12: a mutation answers success only after its write has completed, and
\* a mutation that ends in an error response leaves the file as it was.
C12_ErrorLeavesFileUnchanged ==
  [][(~io'.called /\ MutationStep)
     => IF resp'.success THEN io'.wrote = "ok" /\ file'.st = "doc"
        ELSE file' = file]_vars

(* ------------------ decimal strings read back as integers -------------- *)
\* s is a non-empty string of the characters 0..9 only
IsDigitString(s) ==
  /\ Len(s) >= 1
  /\ \A i \in 1..Len(s) : \E d \in 0..9 : ToString(d) = SubSeq(s, i, i)

\* the digits of a digit string, most significant first
StringDigits(s) ==
  [i \in 1..Len(s) |-> CHOOSE d \in 0..9 : ToString(d) = SubSeq(s, i, i)]

\* a decimal numeral in canonical form: no leading zero except for "0"
IsNatString(s) == IsDigitString(s) /\ (Len(s) > 1 => SubSeq(s, 1, 1) # "0")

RECURSIVE StripZeros(_)
StripZeros(ds) ==
  IF Len(ds) > 1 /\ ds[1] = 0 THEN StripZeros(Tail(ds)) ELSE ds

\* digits of ds * m + carry, for a small natural m (schoolbook, from the right)
RECURSIVE TimesSmall(_, _, _)
TimesSmall(ds, m, carry) ==
  IF ds = <<>> THEN (IF carry = 0 THEN <<>> ELSE DigitsOf(carry))
  ELSE LET x == ds[Len(ds)] * m + carry
       IN TimesSmall(SubSeq(ds, 1, Len(ds) - 1), m, x \div 10) \o <<x % 10>>

\* x <= y for digit sequences without leading zeros
RECURSIVE DigitsLeq(_, _)
DigitsLeq(x, y) ==
  IF Len(x) # Len(y) THEN Len(x) < Len(y)
  ELSE IF x = <<>> THEN TRUE
  ELSE IF x[1] # y[1] THEN x[1] < y[1]
  ELSE DigitsLeq(Tail(x), Tail(y))

\* the last call of calculateWei and the one before it
LastCall == weiCall.last
CallBefore == weiCall.before
Called_(c) == c.result # ""
Threw(c) == c.result = RangeError

\* C13: calculateWei fails for every rate <= 0 and every rate that rounds to
\* 0 millionths, and fails for every amount < 0.
C13_RejectsBadRateAndAmount ==
  (/\ Called_(LastCall)
   /\ \/ (LastCall.tokenPrice.t = "num" /\ MathRoundMicro(LastCall.tokenPrice.v) <= 0)
      \/ (LastCall.usdAmount.t = "num" /\ LastCall.usdAmount.v < 0))
  => Threw(LastCall)

\* scaledAmount * 10^18 as digits
ScaledTimesWei(scaledAmount) ==
  StripZeros(DigitsOf(scaledAmount) \o [i \in 1..WEI_DECIMALS |-> 0])

\* the digit string q is floor(scaledAmount * 10^18 / scaledPrice):
\* q * scaledPrice <= scaledAmount * 10^18 < (q + 1) * scaledPrice
IsFloorQuotient(q, scaledAmount, scaledPrice) ==
  LET qd == StringDigits(q)
      lower == StripZeros(TimesSmall(qd, scaledPrice, 0))
      upper == StripZeros(TimesSmall(qd, scaledPrice, scaledPrice))
      target == ScaledTimesWei(scaledAmount)
  IN DigitsLeq(lower, target) /\ ~DigitsLeq(upper, target)

\* C14: for an amount >= 0 and a rate of at least one millionth, calculateWei
\* returns the canonical decimal string of floor(scaledAmount * 10^18 /
\* scaledPrice), a non-negative integer; for amount 0 it returns "0".
C14_FloorOfScaledQuotient ==
  (/\ Called_(LastCall)
   /\ LastCall.usdAmount.t = "num" /\ LastCall.usdAmount.v >= 0
   /\ LastCall.tokenPrice.t = "num" /\ MathRoundMicro(LastCall.tokenPrice.v) > 0)
  => /\ IsNatString(LastCall.result)
     /\ IsFloorQuotient(LastCall.result, MathRoundMicro(LastCall.usdAmount.v),
                        MathRoundMicro(LastCall.tokenPrice.v))
     /\ (LastCall.usdAmount.v = 0 => LastCall.result = "0")

\* 8 dollars at 0.000003 was converted to a 25-digit quotient with remainder
C14_Witness ==
  /\ LastCall.usdAmount = Usd(8) /\ LastCall.tokenPrice = Micro(3)
  /\ LastCall.result = "2666666666666666666666666"

\* both calls returned a numeral, for the given arguments
BothReturned ==
  /\ Called_(CallBefore) /\ Called_(LastCall)
  /\ CallBefore.usdAmount.t = "num" /\ LastCall.usdAmount.t = "num"
  /\ CallBefore.tokenPrice.t = "num" /\ LastCall.tokenPrice.t = "num"
  /\ MathRoundMicro(CallBefore.tokenPrice.v) > 0
  /\ MathRoundMicro(LastCall.tokenPrice.v) > 0

\* C15: at one rate of at least a millionth, a larger non-negative amount
\* never converts to a smaller integer.
C15_MonotoneInAmount ==
  (/\ BothReturned
   /\ CallBefore.tokenPrice = LastCall.tokenPrice
   /\ 0 <= CallBefore.usdAmount.v
   /\ CallBefore.usdAmount.v < LastCall.usdAmount.v)
  => /\ IsNatString(CallBefore.result) /\ IsNatString(LastCall.result)
     /\ DigitsLeq(StringDigits(CallBefore.result), StringDigits(LastCall.result))

\* 1.5 dollars then 8 dollars at 0.182: a shorter numeral, then a longer one
\* that starts with a smaller digit
C15_Witness ==
  /\ CallBefore.usdAmount = Micro(1500000) /\ LastCall.usdAmount = Usd(8)
  /\ CallBefore.tokenPrice = SEED_POL_PRICE /\ LastCall.tokenPrice = SEED_POL_PRICE
  /\ CallBefore.result = "8241758241758241758"
  /\ LastCall.result = "43956043956043956043"

\* C16: for one amount > 0, a larger rate (both at least a millionth) never
\* converts to a larger integer.
C16_AntitoneInRate ==
  (/\ BothReturned
   /\ CallBefore.usdAmount = LastCall.usdAmount
   /\ LastCall.usdAmount.v > 0
   /\ 0 < CallBefore.tokenPrice.v
   /\ CallBefore.tokenPrice.v < LastCall.tokenPrice.v)
  => /\ IsNatString(CallBefore.result) /\ IsNatString(LastCall.result)
     /\ DigitsLeq(StringDigits(LastCall.result), StringDigits(CallBefore.result))

\* 8 dollars at 0.00007, then at 0.182
C16_Witness ==
  /\ CallBefore.usdAmount = Usd(8) /\ LastCall.usdAmount = Usd(8)
  /\ CallBefore.tokenPrice = NOVA_PRICE /\ LastCall.tokenPrice = SEED_POL_PRICE
  /\ CallBefore.result = "114285714285714285714285"
  /\ LastCall.result = "43956043956043956043"

\* a { polWei, novaWei } pair
IsPair(x) == DOMAIN x = {"polWei", "novaWei"}

\* out has the keys Kept(input keys) at every level, and pairs as leaves
SameShape(pricesUsd, out, Kept(_)) ==
  /\ DOMAIN out = Kept(DOMAIN pricesUsd)
  /\ \A category \in DOMAIN out :
       /\ DOMAIN out[category] = Kept(DOMAIN pricesUsd[category])
       /\ \A k \in DOMAIN out[category] :
            LET v == pricesUsd[category][k]
            IN IF v.t = "obj"
               THEN /\ DOMAIN out[category][k] = Kept(DOMAIN v.m)
                    /\ \A idx \in DOMAIN out[category][k] :
                         IsPair(out[category][k][idx])
               ELSE IsPair(out[category][k])

AllKeys(keys) == keys
AllButProto(keys) == keys \ {"__proto__"}

Returned == convCall.called /\ ~convCall.threw

PairIsNat(x) == IsNatString(x.polWei) /\ IsNatString(x.novaWei)

\* every leaf of the document doc is such a pair
AllLeavesNat(doc) ==
  \A category \in DOMAIN doc : \A k \in DOMAIN doc[category] :
    LET item == doc[category][k]
    IN IF IsPair(item) THEN PairIsNat(item)
       ELSE \A idx \in DOMAIN item : IsPair(item[idx]) /\ PairIsNat(item[idx])

\* C18: after any sequence of authorized POSTs of passes, cores and reset,
\* every leaf of the document in the file is a pair of strings of
\* non-negative base-10 integers.
C18_StoredLeavesAreNaturals ==
  file.st = "doc" => AllLeavesNat(file.doc)

\* provider outcomes that give no usable price: the call failed, or the
\* price is not a finite number > 0
NoPriceOutcomes ==
  {Failed} \cup {p \in Payloads : ~(p.t = "num" /\ p.v > 0)}

\* the body of the suspended request id converts at the rate it captured
ConvertsAtCapturedRate(op, id) ==
  ~ConvertThrows([c \in {CategoryOf(op)} |-> BodyUsd(op, inflight[id].body)],
                 inflight[id].polPrice)

C20_NoCredentialMeansSeedRate ==
  [][~CMC_API_KEY
     => /\ cachedPolPrice = SEED_POL_PRICE /\ cachedPolPrice' = SEED_POL_PRICE
        /\ ~io'.called
        /\ \A id \in Ids : inflight'[id] = Idle
        /\ (GetPol \/ Health) => resp'.price = SEED_POL_PRICE
        /\ \A key \in Keys, body \in PassesBodies :
             (AnsweredSuccess /\ PostPasses(key, body))
             => resp'.data = ExpectedPasses(body, SEED_POL_PRICE)
        /\ \A key \in Keys, body \in CoresBodies :
             (AnsweredSuccess /\ PostCores(key, body))
             => resp'.polRate = SEED_POL_PRICE]_vars

\* without a credential, the second of two requests was a POST of cores and
\* converted at the seed
C20_Witness ==
  /\ ~CMC_API_KEY /\ resp.op = "PostCores" /\ resp.success
  /\ resp.polRate = SEED_POL_PRICE /\ nreq = 2

\* C21: every request suspended at a provider call is eventually answered,
\* also when the provider never replies.
C21_SuspendedIsEventuallyAnswered ==
  \A id \in Ids : (inflight[id].op # "none") ~> (inflight[id].op = "none")

\* the authorized request changed nothing and called nobody
RejectedUntouched ==
  /\ ~io'.called /\ io'.wrote = "no"
  /\ inflight' = inflight
  /\ file' = file /\ DEFAULT_PRICES' = DEFAULT_PRICES

LacksField(body, fields) == \E k \in fields : body[k] = Undefined

\* the 400 answer of a POST of passes or cores that lacks a field; Names:
\* what the answer to a boost that is not a plain object has to name
Answers400(Names(_)) ==
  /\ \A body \in MorePassesBodies :
       (PostPasses(ADMIN_API_KEY, body)
          /\ LacksField(body, {"basic", "premium", "ultimate"}))
       => /\ resp'.op = "PostPasses" /\ resp'.status = 400
          /\ resp'.error = "missing_fields"
          /\ resp'.required = <<"basic", "premium", "ultimate">>
          /\ RejectedUntouched
  /\ \A body \in MoreCoresBodies :
       PostCores(ADMIN_API_KEY, body)
       => IF LacksField(body, {"boost", "nft", "point"})
          THEN /\ resp'.op = "PostCores" /\ resp'.status = 400
               /\ resp'.error = "missing_fields"
               /\ resp'.required = <<"boost(object)", "nft", "point">>
               /\ RejectedUntouched
          ELSE body.boost.t \in {"null", "arr", "str", "num"}
               => /\ resp'.op = "PostCores" /\ resp'.status = 400
                  /\ Names(resp')
                  /\ RejectedUntouched

NamesRequiredFields(r) == r.required # <<>>
NamesBoostOnly(r) == r.error = "boost_must_be_object" /\ r.required = <<>>

\* C22 as stated: the answer to a boost that is not a plain object also
\* lists the required fields.
C22_BadBodyNamesRequiredFields == [][Answers400(NamesRequiredFields)]_vars

\* C22, amended: an authorized POST lacking a required field is answered 400
\* missing_fields with the list of all required fields of its endpoint; an
\* authorized POST of cores with all three fields whose boost is not a plain
\* object is answered 400 boost_must_be_object without such a list; both make
\* no provider call and leave the file as it was.
C22_BadBodyAnswered400 == [][Answers400(NamesBoostOnly)]_vars

\* a POST of cores without its boost was rejected although the file held the
\* passes of an earlier POST, and these are still there
C22_Witness ==
  /\ resp.op = "PostCores" /\ resp.status = 400
  /\ resp.error = "missing_fields" /\ resp.required # <<>>
  /\ nreq = 2 /\ file.st = "doc" /\ file.doc.passes # StartupDefault.passes

CacheUnchanged ==
  cachedPolPrice' = cachedPolPrice /\ lastPolFetchTime' = lastPolFetchTime

\* C23: a step that changes the cached rate or its fetch time is the
\* resumption of a GET /api/prices/pol with a valid price; the resumption of
\* a POST of passes or cores, whatever the provider gave it, and every first
\* step of a request leave both as they were.
C23_CacheChangedOnlyByPolRefresh ==
  [][/\ ~CacheUnchanged
        => \E id \in Ids :
             /\ inflight[id].op = "GetPol"
             /\ \E p \in Payloads : IsValidPrice(p) /\ GetPolResume(id, p)
     /\ \A id \in Ids :
          (inflight[id].op \in {"PostPasses", "PostCores"} /\ inflight'[id] = Idle)
          => CacheUnchanged
     /\ nreq' # nreq => CacheUnchanged]_vars

\* a POST of cores converted at the provider's price 0.2 and stored the
\* result, and the cache still holds the seed, never refreshed
C23_Witness ==
  /\ resp.op = "PostCores" /\ resp.success /\ io.wrote = "ok"
  /\ resp.polRate = Micro(200000)
  /\ cachedPolPrice = SEED_POL_PRICE /\ lastPolFetchTime = 0

\* C24: every answer of GET /api/prices/pol and every answer of the three
\* mutation endpoints, the 400, 401 and 500 ones included, carries a
\* timestamp.
C24_EveryAnswerHasTimestamp ==
  resp.op \in {"GetPol", "PostPasses", "PostCores", "PostReset"}
  => resp.timestamp

\* the entry of KNOWN_TOKENS for the address addr, whatever its letter case
ListedAs(addr) ==
  {k \in DOMAIN KNOWN_TOKENS : toLowerCase(k) = toLowerCase(addr)}

\* C25: for an address listed in KNOWN_TOKENS, in whatever letter case,
\* getToken makes no RPC call and returns the Token of the table: the
\* decimals, symbol and name of the entry.
C25_ListedTokenNeedsNoRpc ==
  \A k \in ListedAs(tokenCall.last.addr) :
    /\ ~tokenCall.last.rpc /\ ~tokenCall.last.threw
    /\ tokenCall.last.token.decimals = KNOWN_TOKENS[k].decimals
    /\ tokenCall.last.token.symbol = KNOWN_TOKENS[k].symbol
    /\ tokenCall.last.token.name = KNOWN_TOKENS[k].name

\* a number of whole millionths
ExactInMillionths(x) == x.t = "num" /\ x.v % SubMicro = 0

\* C26: for an amount >= 0 and a rate > 0 that are whole numbers of
\* millionths, the calculateWei of src/unnamed/part_000 returns what the
\* calculateWei of server.js returns: the numeral of
\* floor(scaledAmount * 10^18 / scaledPrice).
C26_EarlyVariantAgrees ==
  LET c == earlyCall.last
  IN (/\ Called_(c)
      /\ ExactInMillionths(c.usdAmount) /\ c.usdAmount.v >= 0
      /\ ExactInMillionths(c.tokenPrice) /\ c.tokenPrice.v > 0)
     => /\ c.result = CallTable[c.usdAmount, c.tokenPrice]
        /\ IsFloorQuotient(c.result, c.usdAmount.v \div SubMicro,
                           c.tokenPrice.v \div SubMicro)

\* C27: the fetch time of the rate cache never decreases, and a refresh by
\* a request that started earlier than the cached fetch never replaces the
\* cached rate.
C27_FetchTimeNeverDecreases ==
  [][/\ lastPolFetchTime' >= lastPolFetchTime
     /\ \A id \in Ids :
          (inflight[id].op = "GetPol" /\ inflight'[id] = Idle
             /\ inflight[id].now < lastPolFetchTime)
          => cachedPolPrice' = cachedPolPrice]_vars

\* a finite number strictly greater than 0
IsPositiveFinite(x) == x.t = "num" /\ x.v > 0

\* the step resumes the POST id, which read from the cache a rate of less
\* than half a millionth, after a provider call that gave no price
FallsBackToTinyRate(id) ==
  /\ inflight[id].op \in {"PostPasses", "PostCores"}
  /\ inflight'[id] = Idle
  /\ MathRoundMicro(inflight[id].polPrice.v) = 0
  /\ \E outcome \in NoPriceOutcomes : PostResume(inflight[id].op, id, outcome)

C29_DefaultDocumentIsNeverModified == DEFAULT_PRICES = StartupDefault

\* C30: a POST of passes or cores whose provider call gave no price and that
\* is answered success has converted at the rate the cache holds when it
\* resumes, whatever happened to the cache while it was suspended.
C30_FallbackUsesCurrentCache ==
  [][\A id \in Ids, outcome \in NoPriceOutcomes :
       LET op == inflight[id].op
       IN (/\ op \in {"PostPasses", "PostCores"}
           /\ inflight'[id] = Idle
           /\ PostResume(op, id, outcome)
           /\ resp'.success)
          => IF op = "PostPasses"
             THEN resp'.data = ExpectedPasses(inflight[id].body, cachedPolPrice)
             ELSE /\ resp'.polRate = cachedPolPrice
                  /\ resp'.data.nft.polWei =
                       WeiTable[ToNumber(inflight[id].body.nft), cachedPolPrice]]_vars
====
